---- MODULE Spec2Model ----
(***************************************************************************)
(* A model of the wave-packet simulation of                                *)
(* "Simulation Project/CBPM_Anas_Roumeih_3766647.ipynb": the WavePacket    *)
(* engine (constructor and evolve_wave_function) and the WaveAnimation     *)
(* presentation layer (constructor, update_plot, time_generator).          *)
(*                                                                         *)
(* Floating-point numbers are modelled as exact rationals extended with    *)
(* the IEEE non-finite values NaN and +-inf, which is where numpy's silent *)
(* division by zero ends up.  Arrays that the engine hands out live in a   *)
(* heap of objects and are named by reference, so that aliasing between    *)
(* the engine's fields and the caller's arrays is visible.                 *)
(***************************************************************************)
EXTENDS Integers, Sequences, FiniteSets, TLC

(***************************************************************************)
(* Real numbers: <<n, d>> with d > 0 and gcd(n, d) = 1 is the rational     *)
(* n/d; <<0, 0>> is NaN, <<1, 0>> is +inf and <<-1, 0>> is -inf.           *)
(***************************************************************************)
NaN == <<0, 0>>

PosInf == <<1, 0>>

NegInf == <<-1, 0>>

Abs(n) == IF n < 0 THEN -n ELSE n

Sign(n) == IF n < 0 THEN -1 ELSE IF n = 0 THEN 0 ELSE 1

RECURSIVE Gcd(_, _)
Gcd(a, b) == IF b = 0 THEN a ELSE Gcd(b, a % b)

Frac(n, d) ==
    LET s == IF d < 0 THEN -1 ELSE 1
        g == Gcd(Abs(n), Abs(d))
    IN  <<(s * n) \div g, (s * d) \div g>>

R(n) == <<n, 1>>

Zero == R(0)

One == R(1)

IsNaN(a) == a = NaN

IsInf(a) == a[2] = 0 /\ a[1] # 0

IsFinite(a) == a[2] # 0

RNeg(a) == <<-a[1], a[2]>>

RAdd(a, b) ==
    IF IsNaN(a) \/ IsNaN(b) THEN NaN
    ELSE IF IsInf(a) /\ IsInf(b) THEN (IF a = b THEN a ELSE NaN)
    ELSE IF IsInf(a) THEN a
    ELSE IF IsInf(b) THEN b
    ELSE LET g == Gcd(a[2], b[2])
             l == (a[2] \div g) * b[2]
         IN  Frac(a[1] * (l \div a[2]) + b[1] * (l \div b[2]), l)

RSub(a, b) == RAdd(a, RNeg(b))

RMul(a, b) ==
    IF IsNaN(a) \/ IsNaN(b) THEN NaN
    ELSE IF IsInf(a) \/ IsInf(b)
         THEN (IF a[1] = 0 \/ b[1] = 0 THEN NaN ELSE <<Sign(a[1]) * Sign(b[1]), 0>>)
    ELSE IF a[1] = 0 \/ b[1] = 0 THEN Zero
    ELSE LET g1 == Gcd(Abs(a[1]), b[2])
             g2 == Gcd(Abs(b[1]), a[2])
         IN  <<(a[1] \div g1) * (b[1] \div g2), (a[2] \div g2) * (b[2] \div g1)>>

\* IEEE division: 0/0 and inf/inf are NaN, x/0 is an infinity, x/inf is 0.
RDiv(a, b) ==
    IF IsNaN(a) \/ IsNaN(b) THEN NaN
    ELSE IF IsInf(b) THEN (IF IsInf(a) THEN NaN ELSE Zero)
    ELSE IF b[1] = 0 THEN (IF a[1] = 0 THEN NaN ELSE <<Sign(a[1]), 0>>)
    ELSE RMul(a, IF b[1] > 0 THEN <<b[2], b[1]>> ELSE <<-b[2], -b[1]>>)

\* a < b; every comparison with NaN is false.
RLess(a, b) ==
    IF IsNaN(a) \/ IsNaN(b) THEN FALSE
    ELSE IF IsInf(a) \/ IsInf(b)
         THEN (IF IsInf(a) /\ IsInf(b) THEN a[1] < b[1]
               ELSE IF IsInf(a) THEN a[1] < 0 ELSE b[1] > 0)
    ELSE a[1] * b[2] < b[1] * a[2]

(***************************************************************************)
(* Complex numbers (numpy complex128): a record of two reals.              *)
(***************************************************************************)
Cx(re, im) == [re |-> re, im |-> im]

CZero == Cx(Zero, Zero)

COne == Cx(One, Zero)

CNaN == Cx(NaN, NaN)

CReal(a) == Cx(a, Zero)

CAdd(z, w) == Cx(RAdd(z.re, w.re), RAdd(z.im, w.im))

CSub(z, w) == Cx(RSub(z.re, w.re), RSub(z.im, w.im))

CMul(z, w) ==
    Cx(RSub(RMul(z.re, w.re), RMul(z.im, w.im)),
       RAdd(RMul(z.re, w.im), RMul(z.im, w.re)))

CDiv(z, w) ==
    LET d == RAdd(RMul(w.re, w.re), RMul(w.im, w.im))
    IN  Cx(RDiv(RAdd(RMul(z.re, w.re), RMul(z.im, w.im)), d),
           RDiv(RSub(RMul(z.im, w.re), RMul(z.re, w.im)), d))

\* abs(z)**2
CAbs2(z) == RAdd(RMul(z.re, z.re), RMul(z.im, z.im))

CIsFinite(z) == IsFinite(z.re) /\ IsFinite(z.im)

(***************************************************************************)
(* Vectors and matrices: sequences, and sequences of rows.                 *)
(***************************************************************************)
\* The sequence f[1], ..., f[n], built element by element (each element is
\* computed once); Matrix does the same for n rows of n elements.
RECURSIVE Vector(_, _)
Vector(f, n) == IF n = 0 THEN <<>> ELSE Append(Vector(f, n - 1), f[n])

Matrix(f, n) == Vector([i \in 1..n |-> Vector(f[i], n)], n)

\* s[1] + ... + s[k], added from the left as Python's sum does.
RECURSIVE RSumTo(_, _)
RSumTo(s, k) == IF k = 0 THEN Zero ELSE RAdd(RSumTo(s, k - 1), s[k])

RSum(s) == RSumTo(s, Len(s))

\* a[1] * b[1] + ... + a[k] * b[k]
RECURSIVE Dot(_, _, _)
Dot(a, b, k) == IF k = 0 THEN CZero ELSE CAdd(Dot(a, b, k - 1), CMul(a[k], b[k]))

\* Column j of matrix M.
Column(M, j) == Vector([k \in 1..Len(M) |-> M[k][j]], Len(M))

Eye(n) == Matrix([i \in 1..n |-> [j \in 1..n |-> IF i = j THEN COne ELSE CZero]], n)

MatScale(c, M) ==
    Matrix([i \in 1..Len(M) |-> [j \in 1..Len(M) |-> CMul(c, M[i][j])]], Len(M))

MatAdd(A, B) ==
    Matrix([i \in 1..Len(A) |-> [j \in 1..Len(A) |-> CAdd(A[i][j], B[i][j])]], Len(A))

MatSub(A, B) ==
    Matrix([i \in 1..Len(A) |-> [j \in 1..Len(A) |-> CSub(A[i][j], B[i][j])]], Len(A))

MatMul(A, B) ==
    Matrix([i \in 1..Len(A) |-> [j \in 1..Len(A) |-> Dot(A[i], Column(B, j), Len(A))]],
           Len(A))

MatVec(A, v) ==
    Vector([i \in 1..Len(A) |-> Dot(A[i], v, Len(A))], Len(A))

Skip(k, i) == IF k < i THEN k ELSE k + 1

Minor(M, r, c) ==
    Matrix([i \in 1..(Len(M) - 1) |-> [j \in 1..(Len(M) - 1) |->
               M[Skip(i, r)][Skip(j, c)]]],
           Len(M) - 1)

\* Laplace expansion along the first row: the terms of columns 1..k.
RECURSIVE Det(_)
RECURSIVE DetTo(_, _)
DetTo(M, k) ==
    IF k = 0 THEN CZero
    ELSE IF k % 2 = 1
         THEN CAdd(DetTo(M, k - 1), CMul(M[1][k], Det(Minor(M, 1, k))))
         ELSE CSub(DetTo(M, k - 1), CMul(M[1][k], Det(Minor(M, 1, k))))

Det(M) == IF Len(M) = 0 THEN COne ELSE DetTo(M, Len(M))

\* The matrix of cofactors, transposed, each divided by d.
AdjugateOver(M, d) ==
    Matrix([i \in 1..Len(M) |-> [j \in 1..Len(M) |->
               LET c == Det(Minor(M, j, i))
               IN  CDiv(IF (i + j) % 2 = 0 THEN c ELSE CSub(CZero, c), d)]],
           Len(M))

\* scipy.sparse.linalg.inv: the exact inverse (cofactors over the determinant).
Inv(M) == AdjugateOver(M, Det(M))

(***************************************************************************)
(* WavePacket.__init__                                                     *)
(***************************************************************************)

\* np.linspace(x_min, x_max, grid_size, retstep=True), for grid_size >= 2.
Linspace(x_min, x_max, n) ==
    LET step == RDiv(RSub(x_max, x_min), R(n - 1))
    IN  [values |-> Vector([i \in 1..n |-> IF i = n THEN x_max
                                            ELSE RAdd(x_min, RMul(R(i - 1), step))], n),
         step |-> step]

\* np.exp(-t) is 0.0 in float64 once t exceeds about 745 (the smallest
\* subnormal is exp(-745.13...)).
ExpUnderflow == 745

\* Whether the Gaussian envelope exp(-(x - x0)^2 / (4 sigma^2)) underflows to 0.
Underflows(x, packet_center, packet_width) ==
    LET d == RSub(x, packet_center)
    IN  RLess(R(ExpUnderflow),
              RDiv(RMul(d, d), RMul(R(4), RMul(packet_width, packet_width))))

\* The values the product of the envelope, the plane-wave factor exp(i k x)
\* and the normalization factor can take where the envelope does not
\* underflow: the transcendental values are not computed, a nonzero complex
\* number stands for each, real and positive when wave_number is 0.
Amplitudes(wave_number) ==
    IF wave_number = Zero THEN {Cx(R(1), Zero), Cx(R(2), Zero)}
    ELSE {Cx(R(1), R(1)), Cx(Zero, R(2))}

\* The arrays self.wave_function can hold after lines 77-79.
InitialWaves(p, x_values) ==
    {f \in [1..p.grid_size -> Amplitudes(p.wave_number) \cup {CZero}] :
        \A i \in 1..p.grid_size :
            (f[i] = CZero) <=> Underflows(x_values[i], p.packet_center, p.packet_width)}

PotentialBarrierClosedRight(x_values, potential_height, potential_width) ==
    Vector([i \in 1..Len(x_values) |->
               IF RLess(Zero, x_values[i]) /\ ~RLess(potential_width, x_values[i])
               THEN potential_height ELSE Zero],
           Len(x_values))

\* np.array([potential_height if 0.0 < x < potential_width else 0.0 for x in x_values])
PotentialBarrier(x_values, potential_height, potential_width) ==
    Vector([i \in 1..Len(x_values) |->
               IF RLess(Zero, x_values[i]) /\ RLess(x_values[i], potential_width)
               THEN potential_height ELSE Zero],
           Len(x_values))

\* np.ones(grid_size) / delta_x**2 + potential_barrier
DiagElements(n, delta_x, potential_barrier) ==
    Vector([i \in 1..n |->
               RAdd(RDiv(One, RMul(delta_x, delta_x)), potential_barrier[i])], n)

\* np.ones(grid_size - 1) * (-0.5 / delta_x**2)
OffDiagElements(n, delta_x) ==
    Vector([i \in 1..(n - 1) |->
               RMul(One, RDiv(Frac(-1, 2), RMul(delta_x, delta_x)))], n - 1)

\* sparse.diags([diag, off, off], [0, 1, -1])
HamiltonianMatrix(diag_elements, off_diag_elements) ==
    Matrix([i \in 1..Len(diag_elements) |-> [j \in 1..Len(diag_elements) |->
               IF i = j THEN CReal(diag_elements[i])
               ELSE IF j = i + 1 THEN CReal(off_diag_elements[i])
               ELSE IF i = j + 1 THEN CReal(off_diag_elements[j])
               ELSE CZero]],
           Len(diag_elements))

\* time_step / 2.0j
HalfStepOverJ(time_step) == CDiv(CReal(time_step), Cx(Zero, R(2)))

BackwardPartSwapped(n, time_step, hamiltonian_matrix) ==
    MatAdd(Eye(n), MatScale(HalfStepOverJ(time_step), hamiltonian_matrix))

\* sparse.eye(grid_size) - time_step / 2.0j * hamiltonian_matrix
BackwardPart(n, time_step, hamiltonian_matrix) ==
    MatSub(Eye(n), MatScale(HalfStepOverJ(time_step), hamiltonian_matrix))

\* sparse.eye(grid_size) + time_step / 2.0j * hamiltonian_matrix
ForwardPart(n, time_step, hamiltonian_matrix) ==
    MatAdd(Eye(n), MatScale(HalfStepOverJ(time_step), hamiltonian_matrix))

\* la.inv(backward_part).dot(forward_part)
EvolutionOperator(n, time_step, delta_x, potential_barrier) ==
    LET H == HamiltonianMatrix(DiagElements(n, delta_x, potential_barrier),
                               OffDiagElements(n, delta_x))
    IN  MatMul(Inv(BackwardPart(n, time_step, H)), ForwardPart(n, time_step, H))

\* The object the constructor builds from parameters p, given the reference
\* of the np.zeros array; self.wave_function is filled in by WithWave.
WavePacket(p, zeros_ref) ==
    LET grid == Linspace(p.x_min, p.x_max, p.grid_size)
        potential == PotentialBarrier(grid.values, p.potential_height, p.potential_width)
    IN  [exists |-> TRUE,
         grid_size |-> p.grid_size,
         time_step |-> p.time_step,
         potential_height |-> p.potential_height,
         potential_width |-> p.potential_width,
         packet_width |-> p.packet_width,
         wave_number |-> p.wave_number,
         packet_center |-> p.packet_center,
         prob_density |-> zeros_ref,
         x_values |-> grid.values,
         delta_x |-> grid.step,
         wave_function |-> [amp |-> <<>>, norm2 |-> One],
         potential_barrier |-> potential,
         evolution_operator |->
             EvolutionOperator(p.grid_size, p.time_step, grid.step, potential)]

\* The array psi0 as self.wave_function.  A wave function is kept as
\* amp / sqrt(norm2), which keeps the square root of the renormalization exact.
WithWave(e, psi0) == [e EXCEPT !.wave_function = [amp |-> psi0, norm2 |-> One]]

\* (2.0 * np.pi * packet_width**2)**(-0.25) on Python numbers: a zero base
\* with a negative exponent raises ZeroDivisionError.
ConstructorRaises(p) == p.packet_width = Zero

(***************************************************************************)
(* State.                                                                  *)
(*   wp        the WavePacket object (a record of its attributes)          *)
(*   anim      the WaveAnimation object                                    *)
(*   heap      the probability-density arrays, by reference (index)        *)
(*   returned  the references evolve_wave_function has returned, in order  *)
(*   error     the exception the constructor call ended with, if any       *)
(*   gen       where the time_generator generator stands                   *)
(*   calls     the number of evolve_wave_function calls made so far        *)
(*   writes    the number of writes the caller made into returned arrays   *)
(*   direct    the number of calls made on the engine directly             *)
(*   yields    the number of densities time_generator has yielded          *)
(***************************************************************************)
VARIABLES wp, anim, heap, returned, error, gen, calls, writes, direct, yields

vars == <<wp, anim, heap, returned, error, gen, calls, writes, direct, yields>>

NoWavePacket == [exists |-> FALSE]

NoAnimation == [exists |-> FALSE]

Init ==
    /\ wp = NoWavePacket
    /\ anim = NoAnimation
    /\ heap = <<>>
    /\ returned = <<>>
    /\ error = "none"
    /\ gen = "none"
    /\ calls = 0
    /\ writes = 0
    /\ direct = 0
    /\ yields = 0

(***************************************************************************)
(* Constructor parameters.                                                 *)
(***************************************************************************)
Params(sizes, steps, heights, widths, numbers, packet_widths, centers, bounds) ==
    {[grid_size |-> n, time_step |-> dt, potential_height |-> h,
      potential_width |-> w, wave_number |-> k, packet_width |-> s,
      packet_center |-> c, x_min |-> b[1], x_max |-> b[2]] :
        n \in sizes, dt \in steps, h \in heights, w \in widths, k \in numbers,
        s \in packet_widths, c \in centers, b \in bounds}

\* A grid of three points of spacing 1 inside a well of depth 1/2 with
\* time_step 4: the propagator has order 8, so the amplitudes stay small
\* rationals over any number of steps.
PeriodicParams ==
    Params({3}, {R(4)}, {Frac(-1, 2)}, {R(4)}, {Zero, One}, {Zero, One},
           {R(2), R(-200)}, {<<R(1), R(3)>>, <<R(3), R(1)>>})

\* time_step 0: the propagator is the identity.
StaticParams ==
    Params({2, 3}, {Zero}, {One}, {R(2)}, {One}, {One},
           {Zero, R(-200)}, {<<R(-1), R(1)>>, <<R(1), R(-1)>>})

EngineParams == PeriodicParams \cup StaticParams

\* A wider set for the constructor alone, with barriers that cover none, some
\* and all of the grid, grid points on both barrier edges, and reversed bounds.
WideParams ==
    Params({2, 3}, {Zero, One, R(4)}, {Zero, One, Frac(-1, 2)},
           {Zero, One, R(2), R(4)}, {Zero, One}, {Zero, One}, {Zero, R(-200)},
           {<<R(-1), R(1)>>, <<R(1), R(-1)>>, <<R(1), R(3)>>})
    \cup
    Params({4}, {Zero, One, R(4)}, {Zero, One, Frac(-1, 2)},
           {Zero, One, R(2), R(4)}, {Zero, One}, {Zero, One}, {Zero, R(-200)},
           {<<Zero, R(3)>>, <<R(3), Zero>>})

MaxSteps == 2

MaxWrites == 1

MaxDirect == 1

(***************************************************************************)
(* WavePacket.evolve_wave_function                                         *)
(***************************************************************************)

\* Lines 95-99: the propagated amplitudes, abs(.)**2 and its sum.
Propagate(e) ==
    LET psi == MatVec(e.evolution_operator, e.wave_function.amp)
        density == Vector([i \in 1..e.grid_size |->
                              RDiv(CAbs2(psi[i]), e.wave_function.norm2)],
                          e.grid_size)
    IN  [psi |-> psi, norm2 |-> e.wave_function.norm2, density |-> density,
         total_probability |-> RSum(density)]

\* self.prob_density /= total_probability
NormalizedDensity(density, total) ==
    Vector([i \in 1..Len(density) |-> RDiv(density[i], total)], Len(density))

\* self.wave_function /= total_probability**0.5, for the array psi / sqrt(norm2).
\* The square root of 0, +inf and NaN is itself; a negative base gives NaN.
NormalizedWave(psi, norm2, total) ==
    IF IsFinite(total) /\ RLess(Zero, total)
    THEN [amp |-> psi, norm2 |-> RMul(norm2, total)]
    ELSE LET root == IF RLess(total, Zero) THEN NaN ELSE total
         IN  [amp |-> Vector([i \in 1..Len(psi) |->
                                 Cx(RDiv(psi[i].re, root), RDiv(psi[i].im, root))],
                             Len(psi)),
              norm2 |-> norm2]

\* A variant that stores the density into the array self.prob_density
\* already names (self.prob_density[:] = ...).
evolve_in_place(e, h) ==
    LET s == Propagate(e)
    IN  [wp |-> [e EXCEPT !.wave_function =
                               NormalizedWave(s.psi, s.norm2, s.total_probability)],
         heap |-> [h EXCEPT ![e.prob_density] =
                               NormalizedDensity(s.density, s.total_probability)],
         result |-> e.prob_density]

\* A variant that also rebuilds the operator (squares it) on every call.
evolve_rebuilding_operator(e, h) ==
    LET s == Propagate(e)
    IN  [wp |-> [e EXCEPT !.wave_function =
                               NormalizedWave(s.psi, s.norm2, s.total_probability),
                          !.prob_density = Len(h) + 1,
                          !.evolution_operator =
                               MatMul(e.evolution_operator, e.evolution_operator)],
         heap |-> Append(h, NormalizedDensity(s.density, s.total_probability)),
         result |-> Len(h) + 1]

\* The call on engine e with heap h: the engine after it, the heap after it
\* and the reference returned.  abs(...)**2 makes a new array, which
\* self.prob_density then names and which is divided in place and returned.
evolve_wave_function(e, h) ==
    LET s == Propagate(e)
    IN  [wp |-> [e EXCEPT !.wave_function =
                               NormalizedWave(s.psi, s.norm2, s.total_probability),
                          !.prob_density = Len(h) + 1],
         heap |-> Append(h, NormalizedDensity(s.density, s.total_probability)),
         result |-> Len(h) + 1]

(***************************************************************************)
(* Actions.                                                                *)
(***************************************************************************)

\* The name wave_packet is bound to the object e once lines 77-79 have
\* computed its wave function.
Bind(e, p) == \E psi0 \in InitialWaves(p, e.x_values) : wp' = WithWave(e, psi0)

\* wave_packet = WavePacket(...) with parameters from P.
Construct(P) ==
    /\ ~wp.exists
    /\ error = "none"
    /\ \E p \in P :
          IF ConstructorRaises(p)
          THEN /\ error' = "ZeroDivisionError"
               /\ UNCHANGED <<wp, heap>>
          ELSE /\ Bind(WavePacket(p, Len(heap) + 1), p)
               /\ heap' = Append(heap, [i \in 1..p.grid_size |-> Zero])
               /\ error' = error
    /\ UNCHANGED <<anim, returned, gen, calls, writes, direct, yields>>

\* wave_packet.evolve_wave_function(), called on the engine directly.
DirectAdvance ==
    /\ wp.exists
    /\ direct < MaxDirect
    /\ LET r == evolve_wave_function(wp, heap)
       IN  /\ wp' = r.wp
           /\ heap' = r.heap
           /\ returned' = Append(returned, r.result)
    /\ calls' = calls + 1
    /\ direct' = direct + 1
    /\ UNCHANGED <<anim, error, gen, writes, yields>>

\* WaveAnimation(wave_packet, max_steps): plots the density returned by a
\* first evolve_wave_function call.
WaveAnimation ==
    /\ wp.exists
    /\ ~anim.exists
    /\ \E max_steps \in 0..MaxSteps :
          LET r == evolve_wave_function(wp, heap)
          IN  /\ wp' = r.wp
              /\ heap' = r.heap
              /\ returned' = Append(returned, r.result)
              /\ anim' = [exists |-> TRUE, current_time |-> Zero,
                          prob_line |-> r.result, max_steps |-> max_steps,
                          current_step |-> 0, fig_open |-> TRUE]
    /\ calls' = calls + 1
    /\ UNCHANGED <<error, gen, writes, direct, yields>>

\* start_animation: FuncAnimation takes time_generator as its frame source.
start_animation ==
    /\ anim.exists
    /\ gen = "none"
    /\ gen' = "start"
    /\ UNCHANGED <<wp, anim, heap, returned, error, calls, writes, direct, yields>>

LoopConditionInclusive(current_step, max_steps) == current_step <= max_steps

\* while self.current_step < self.max_steps
LoopCondition(current_step, max_steps) == current_step < max_steps

\* update_plot: the plotted line takes the array it is given.
update_plot(a, new_data) == [a EXCEPT !.prob_line = new_data]

\* The animation asks the generator for its next frame and draws it.  A
\* generator suspended at its yield first runs the statement after it
\* (current_step += 1), then the loop test.
time_generator ==
    /\ gen \in {"start", "yield"}
    /\ LET step == IF gen = "yield" THEN anim.current_step + 1 ELSE anim.current_step
       IN  \/ /\ LoopCondition(step, anim.max_steps)
              /\ LET r == evolve_wave_function(wp, heap)
                 IN  /\ wp' = r.wp
                     /\ heap' = r.heap
                     /\ returned' = Append(returned, r.result)
                     /\ anim' = update_plot(
                           [anim EXCEPT !.current_step = step,
                                        !.current_time = RAdd(@, wp.time_step)],
                           r.result)
              /\ calls' = calls + 1
              /\ yields' = yields + 1
              /\ gen' = "yield"
           \/ /\ ~LoopCondition(step, anim.max_steps)
              /\ anim' = [anim EXCEPT !.current_step = step, !.fig_open = FALSE]
              /\ gen' = "done"
              /\ UNCHANGED <<wp, heap, returned, calls, yields>>
    /\ UNCHANGED <<error, writes, direct>>

WrittenValue == R(5)

\* The holder of a returned array assigns to its first element.
CallerWrite ==
    /\ writes < MaxWrites
    /\ \E k \in 1..Len(returned) :
          heap' = [heap EXCEPT ![returned[k]][1] = WrittenValue]
    /\ writes' = writes + 1
    /\ UNCHANGED <<wp, anim, returned, error, gen, calls, direct, yields>>

Next ==
    \/ Construct(EngineParams)
    \/ DirectAdvance
    \/ WaveAnimation
    \/ start_animation
    \/ time_generator
    \/ CallerWrite

Spec == Init /\ [][Next]_vars

\* The condition under which time_generator can take a step: the generator
\* has been started and has not ended (its two branches cover both outcomes
\* of the loop test).
GeneratorRuns == gen \in {"start", "yield"}

\* The animation's timer keeps asking for frames until the generator ends:
\* weak fairness WF_vars(time_generator), written out with GeneratorRuns as
\* the enabling condition of the action.
FairSpec == Spec /\ ([]<>(~GeneratorRuns) \/ []<><<time_generator>>_vars)

CtorNext == Construct(WideParams)

CtorSpec == Init /\ [][CtorNext]_vars

(***************************************************************************)
(* Properties.                                                             *)
(***************************************************************************)
AllFinite(array) == \A i \in 1..Len(array) : IsFinite(array[i])

\* The parameters the specification accepts: grid_size >= 3, x_min < x_max,
\* packet_width # 0 and time_step # 0.
ValidConfiguration(e) ==
    /\ e.grid_size >= 3
    /\ RLess(e.x_values[1], e.x_values[e.grid_size])
    /\ e.packet_width # Zero
    /\ e.time_step # Zero

\* C1: the density array returned by every evolve_wave_function call on an
\* engine built from valid parameters sums to 1 when it is returned.
C1_ReturnedDensitySumsToOne ==
    [][(calls' = calls + 1 /\ ValidConfiguration(wp))
          => RSum(heap'[returned'[Len(returned')]]) = One]_vars

\* C2: a call never divides by a zero total: no returned density array and no
\* wave function holds the NaN that 0/0 leaves (the caller only ever writes
\* finite values).
C2_NoDivisionByZeroTotal ==
    (wp.exists /\ ValidConfiguration(wp)) =>
        /\ \A k \in 1..Len(returned) : AllFinite(heap[returned[k]])
        /\ \A i \in 1..Len(wp.wave_function.amp) : CIsFinite(wp.wave_function.amp[i])

\* C3: only valid parameters (grid_size >= 3, x_min < x_max, packet_width # 0,
\* time_step # 0) yield an engine, and a construction that fails fails with
\* InvalidConfiguration.
C3_InvalidConfigurationRejected ==
    /\ wp.exists => ValidConfiguration(wp)
    /\ error \in {"none", "InvalidConfiguration"}

\* C4: a write by the caller into a returned array changes no attribute of the
\* engine and not the contents of the array its prob_density names.
C4_CallerWriteLeavesEngine ==
    [][(writes' = writes + 1 /\ ValidConfiguration(wp)) =>
          /\ wp' = wp
          /\ heap'[wp.prob_density] = heap[wp.prob_density]]_vars

\* C5: once the engine is constructed no step changes any of its attributes
\* other than wave_function and prob_density: the grid, its spacing, the
\* potential and the evolution operator stay as the constructor left them.
C5_OnlyWaveAndDensityChange ==
    [][wp.exists =>
          [wp' EXCEPT !.wave_function = wp.wave_function,
                      !.prob_density = wp.prob_density] = wp]_vars

C5_Witness ==
    /\ wp.exists
    /\ calls >= 2
    /\ wp.time_step # Zero
    /\ heap[returned[1]] # heap[returned[2]]
    /\ AllFinite(heap[returned[2]])

C7_TimeMatchesCalls ==
    (anim.exists /\ ValidConfiguration(wp) /\ direct = 0)
        => anim.current_time = RMul(wp.time_step, R(calls))

\* C8: a started time_generator ends; when it has ended it has yielded exactly
\* max_steps densities and closed the figure; the presentation layer asks for
\* no evolve_wave_function call once current_step has reached max_steps; and
\* the engine holds no max_steps and is still an engine, with the same fields,
\* after every step taken past the limit (DirectAdvance, whose guard reads no
\* field of the animation, is taken after the limit in C8_Witness).
C8_GeneratorTerminates ==
    /\ [](gen = "start" => <>(gen = "done"))
    /\ [](gen = "done" =>
             /\ yields = anim.max_steps
             /\ anim.current_step = anim.max_steps
             /\ ~anim.fig_open)
    /\ [][(anim.exists /\ anim' # anim /\ anim'.current_step >= anim.max_steps)
             => calls' = calls]_vars
    /\ [][(wp.exists /\ anim.exists /\ anim'.current_step >= anim.max_steps)
             => (wp'.exists /\ DOMAIN wp' = DOMAIN wp /\ "max_steps" \notin DOMAIN wp')]_vars

C8_Witness ==
    /\ gen = "done"
    /\ anim.max_steps >= 2
    /\ yields = anim.max_steps
    /\ direct > 0
    /\ calls = anim.max_steps + 1 + direct

\* The matrix I + sign * i * time_step / 2 * H, for the tridiagonal H with
\* diagonal 1/delta_x^2 + potential_barrier[i] and off-diagonals -0.5/delta_x^2.
CrankNicolsonFactor(e, sign) ==
    LET a == RDiv(One, RMul(e.delta_x, e.delta_x))
        f == Cx(Zero, RMul(R(sign), RDiv(e.time_step, R(2))))
    IN  [i \in 1..e.grid_size |-> [j \in 1..e.grid_size |->
            CAdd(IF i = j THEN COne ELSE CZero,
                 CMul(f, IF i = j THEN CReal(RAdd(a, e.potential_barrier[i]))
                         ELSE IF Abs(i - j) = 1 THEN CReal(RMul(Frac(-1, 2), a))
                         ELSE CZero))]]

C10_EarlierArraysUntouched ==
    [][calls' = calls + 1 =>
          \A k \in 1..Len(returned) : heap'[returned[k]] = heap[returned[k]]]_vars

C10_Witness ==
    /\ calls >= 3
    /\ writes = 0
    /\ wp.time_step # Zero
    /\ heap[returned[1]] # heap[returned[2]]
    /\ heap[returned[2]] # heap[returned[3]]
    /\ AllFinite(heap[returned[1]])

====
